---------------------------- MODULE Spec2Model ----------------------------
(***************************************************************************)
(* Verification model of the rgb_status_led add-on:                        *)
(*   led_controller.py  LEDController, the indicator device                *)
(*   ha_monitor.py      HAMonitor, the health sampler and status reduction *)
(*   main.py            the HTTP control surface, its serve loop and the   *)
(*                      signal handler                                     *)
(*                                                                         *)
(* Three specifications share the variables:                               *)
(*   SpecDevice   any sequence of LEDController method calls               *)
(*   SpecMonitor  any sequence of HAMonitor.get_status_priority() calls    *)
(*   Spec         main() of main.py with signals and HTTP requests         *)
(***************************************************************************)
EXTENDS Integers, Sequences, FiniteSets, TLC

VARIABLES
    \* ---- LEDController (led_controller.py) ----
    HAS_WS281X,        \* module flag: the rpi_ws281x import succeeded
    strip,             \* self.strip is not None
    initialized,       \* self._initialized
    current_color,     \* self._current_color
    brightness,        \* self.brightness, stored 0..255
    pixels,            \* the strip's pixel buffer, one colour per LED
    shown,             \* what the strip displays (buffer at the last show())
    strip_brightness,  \* the brightness the strip holds
    \* ---- what the last device call did (history) ----
    lastOp,            \* name of the last LEDController method called
    lastResult,        \* "ok": returned normally, "raised": an exception left it
    preInit,           \* self._initialized just before the last call
    cleanupRun,        \* number of cleanup() calls in a row, counted to 2
    lastReturn,        \* what the last call returned: "True", "False" or "None"
    lastPercent,       \* the last brightness percentage given to the device
    lastStatus,        \* the status name of the last set_status() call, "" before
    lastColor,         \* the colour the last call gave to set_color, OFF if none
    \* ---- HAMonitor (ha_monitor.py) ----
    token,             \* self._token is set (SUPERVISOR_TOKEN present)
    check_zigbee,      \* self.check_zigbee
    check_updates,     \* self.check_updates
    zigbee_patterns,   \* self.zigbee_patterns
    api,               \* what the Supervisor API answered during the last sample
    status,            \* the SystemStatus the last get_status() returned
    sampleRaised,      \* the last get_status() raised to its caller
    priority,          \* the last get_status_priority() result, "none" before
    mpc,               \* the sampler: "idle", "sampling" or "done"
    \* ---- main.py ----
    pc,                \* where main() stands; "Stopped": the process has exited
    led_controller,    \* the global led_controller is set (not None)
    shutdown_requested,\* the global shutdown_requested
    request,           \* the HTTP request do_GET is handling
    response,          \* status code of the last HTTP response, 0 before any
    exitKind,          \* how the process ended: "none" while it runs
    signals,           \* termination signals delivered so far
    clearCalls,        \* calls of led_controller.clear() made so far
    served             \* main() has entered its serve loop

devVars == <<HAS_WS281X, strip, initialized, current_color, brightness,
             pixels, shown, strip_brightness>>
histVars == <<lastOp, lastResult, preInit, cleanupRun, lastReturn, lastPercent,
              lastStatus, lastColor>>

monVars == <<token, check_zigbee, check_updates, zigbee_patterns, api, status,
             sampleRaised, priority, mpc>>

mainVars == <<pc, led_controller, shutdown_requested, request, response,
              exitKind, signals, clearCalls, served>>

vars == <<devVars, histVars, monVars, mainVars>>

---------------------------------------------------------------------------
\* Bounds of the model

\* led_count of the strip (config value; 8 by default, kept small here)
LedCount == 2

\* longest add-on list the /addons endpoint answers with
MaxAddons == 1

\* longest entity list the /core/api/states endpoint answers with
MaxEntities == 1

\* the largest percentage, in absolute value, of SpecScale
MaxPercent == 130

\* termination signals delivered to one run of main()
MaxSignals == 2

\* brightness percentages handed to the constructor and to set_brightness
PercentInputs == {-5, 50, 100, 120}

---------------------------------------------------------------------------
\* StatusColor (led_controller.py:27-34)

GREEN == <<0, 255, 0>>
AMBER == <<255, 165, 0>>
RED   == <<255, 0, 0>>
BLUE  == <<0, 0, 255>>
OFF   == <<0, 0, 0>>
WHITE == <<255, 255, 255>>

StatusColor == {GREEN, AMBER, RED, BLUE, OFF, WHITE}

\* a triple outside the palette: set_color takes any Tuple[int, int, int]
OverRange == <<300, 0, 0>>

\* colours handed to set_color by the caller of SpecDevice
ColorInputs == {GREEN, OFF, OverRange}

Min(a, b) == IF a < b THEN a ELSE b
Max(a, b) == IF a > b THEN a ELSE b
Abs(a) == IF a < 0 THEN -a ELSE a

\* Percentages whose double product p * 2.55 falls just below the exact
\* value p * 255 / 100 (2.55 is not a double; e.g. 100 * 2.55 = 254.99999999999997).
\* Complete for |p| < 340.
FloatShort == {100, 180, 200}

\* int(brightness * 2.55): the double product truncated toward zero
IntTimes2_55(p) ==
    LET m == (Abs(p) * 255) \div 100
        t == IF Abs(p) \in FloatShort THEN m - 1 ELSE m
    IN  IF p < 0 THEN -t ELSE t

\* the scaling without min(255, max(0, ...))
ScaleBrightness_unclamped(p) == IntTimes2_55(p)

\* min(255, max(0, int(brightness * 2.55)))
ScaleBrightness(p) == Min(255, Max(0, IntTimes2_55(p)))

AllPixels(c) == [i \in 1..LedCount |-> c]

\* Color(r, g, b) as the strip stores it: the channels packed into one word,
\* (r << 16) | (g << 8) | b, read back byte by byte. The sum equals the
\* bitwise or for channels that are not negative and whose bits do not
\* overlap, which holds for every colour the model hands in.
WsColor(c) ==
    LET word == c[1] * 65536 + c[2] * 256 + c[3]
    IN  <<(word \div 65536) % 256, (word \div 256) % 256, word % 256>>

---------------------------------------------------------------------------
\* LEDController methods, as actions on the device variables.
\* A backend call (PixelStrip(), begin(), setPixelColor(), show(),
\* setBrightness()) may raise; the argument `fail` names the call that does.

\* initialize(): fail = "none" | "create" (PixelStrip() raises) | "begin"
initialize(fail) ==
    IF ~HAS_WS281X
    THEN /\ initialized' = TRUE
         /\ UNCHANGED <<strip, pixels, shown, strip_brightness>>
    ELSE IF fail = "create"
    THEN UNCHANGED <<strip, initialized, pixels, shown, strip_brightness>>
    ELSE /\ strip' = TRUE
         /\ pixels' = AllPixels(OFF)
         /\ strip_brightness' = brightness
         /\ shown' = IF fail = "begin" THEN shown ELSE AllPixels(OFF)
         /\ initialized' = IF fail = "begin" THEN initialized ELSE TRUE

\* the return value of initialize()
initializeResult(fail) == ~HAS_WS281X \/ fail = "none"

\* set_color that records the colour only after the strip took it: the
\* assignment of line 128 moved behind show()
set_color_recordAfterWrite(color, fail) ==
    IF ~initialized
    THEN UNCHANGED <<current_color, pixels, shown>>
    ELSE IF ~HAS_WS281X \/ ~strip
    THEN current_color' = color /\ UNCHANGED <<pixels, shown>>
    ELSE /\ current_color' = IF fail = 0 THEN color ELSE current_color
         /\ pixels' = [i \in 1..LedCount |->
                         IF fail = 0 \/ i < fail THEN WsColor(color)
                                                 ELSE pixels[i]]
         /\ shown' = IF fail = 0 THEN AllPixels(WsColor(color)) ELSE shown

\* set_color without the `if not self._initialized` return of lines 124-126
set_color_unguarded(color, fail) ==
    /\ current_color' = color
    /\ IF ~HAS_WS281X \/ ~strip
       THEN UNCHANGED <<pixels, shown>>
       ELSE /\ pixels' = [i \in 1..LedCount |->
                            IF fail = 0 \/ i < fail THEN WsColor(color)
                                                    ELSE pixels[i]]
            /\ shown' = IF fail = 0 THEN AllPixels(WsColor(color)) ELSE shown

\* set_color(color, show): fail = 0 (no backend error), k in 1..LedCount
\* (setPixelColor raises at LED k), LedCount + 1 (show() raises).
\* Every backend error is caught inside: set_color always returns.
set_color(color, fail) ==
    IF ~initialized
    THEN UNCHANGED <<current_color, pixels, shown>>
    ELSE /\ current_color' = color
         /\ IF ~HAS_WS281X \/ ~strip
            THEN UNCHANGED <<pixels, shown>>
            ELSE /\ pixels' = [i \in 1..LedCount |->
                                 IF fail = 0 \/ i < fail THEN WsColor(color)
                                                         ELSE pixels[i]]
                 /\ shown' = IF fail = 0 THEN AllPixels(WsColor(color)) ELSE shown

\* whether set_color() raises to its caller: the try/except Exception around
\* the backend calls (lines 135-146) catches every backend error
set_colorRaises(fail) == FALSE

\* color_map of set_status() without its 'updates' key
color_map_noUpdates ==
    ("ok" :> GREEN) @@ ("green" :> GREEN) @@
    ("amber" :> AMBER) @@ ("warning" :> AMBER) @@
    ("error" :> RED) @@ ("red" :> RED) @@ ("zigbee" :> RED) @@
    ("starting" :> BLUE) @@ ("blue" :> BLUE) @@
    ("off" :> OFF) @@ ("test" :> WHITE)

\* color_map of set_status()
color_map ==
    ("ok" :> GREEN) @@ ("green" :> GREEN) @@
    ("updates" :> AMBER) @@ ("amber" :> AMBER) @@ ("warning" :> AMBER) @@
    ("error" :> RED) @@ ("red" :> RED) @@ ("zigbee" :> RED) @@
    ("starting" :> BLUE) @@ ("blue" :> BLUE) @@
    ("off" :> OFF) @@ ("test" :> WHITE)

\* status.lower() on the status names of the model
StatusNameLower(name) ==
    IF name = "Error" THEN "error"
    ELSE IF name = "UPDATES" THEN "updates"
    ELSE name

\* color_map.get(status.lower(), StatusColor.OFF)
color_map_get(name) ==
    LET key == StatusNameLower(name)
    IN  IF key \in DOMAIN color_map THEN color_map[key] ELSE OFF

\* set_status(status): the colour of the status name goes to set_color
set_status(name, fail) == set_color(color_map_get(name), fail)

\* set_brightness(brightness): fail = "none" | "setBrightness" | "show";
\* the backend calls are not guarded, so a backend error leaves the method.
set_brightness(percent, fail) ==
    /\ brightness' = ScaleBrightness(percent)
    /\ IF HAS_WS281X /\ strip
       THEN /\ strip_brightness' = IF fail = "setBrightness" THEN strip_brightness
                                   ELSE ScaleBrightness(percent)
            /\ shown' = IF fail = "none" THEN pixels ELSE shown
       ELSE UNCHANGED <<strip_brightness, shown>>

set_brightnessRaises(fail) == HAS_WS281X /\ strip /\ fail # "none"

\* cleanup() without the guards of cleanup() and set_color(): it writes to the
\* strip whatever the state of the device, and fails without a strip or
\* when the backend does
cleanupRaises_unguarded(fail) == ~strip \/ fail # 0

\* cleanup(): turns the LEDs off when initialized; _initialized is not reset
cleanup(fail) ==
    IF initialized
    THEN set_color(OFF, fail)
    ELSE UNCHANGED <<current_color, pixels, shown>>

\* whether cleanup() raises to its caller: only set_color() could
cleanupRaises(fail) == initialized /\ set_colorRaises(fail)

---------------------------------------------------------------------------
\* HAMonitor (ha_monitor.py)

\* The characters of the entity identifiers and patterns of the model
Chars ==
    ("cover.lumi_blind_1" :> <<"c", "o", "v", "e", "r", ".", "l", "u", "m", "i", "_", "b", "l", "i", "n", "d", "_", "1">>) @@
    ("cover.acn002_blind" :> <<"c", "o", "v", "e", "r", ".", "a", "c", "n", "0", "0", "2", "_", "b", "l", "i", "n", "d">>) @@
    ("button.lumi_switch" :> <<"b", "u", "t", "t", "o", "n", ".", "l", "u", "m", "i", "_", "s", "w", "i", "t", "c", "h">>) @@
    ("cover.kitchen" :> <<"c", "o", "v", "e", "r", ".", "k", "i", "t", "c", "h", "e", "n">>) @@
    ("lumi" :> <<"l", "u", "m", "i">>) @@
    ("zha" :> <<"z", "h", "a">>) @@
    ("zigbee" :> <<"z", "i", "g", "b", "e", "e">>) @@
    ("cover.*acn002" :> <<"c", "o", "v", "e", "r", ".", "*", "a", "c", "n", "0", "0", "2">>) @@
    ("cover.*blind$" :> <<"c", "o", "v", "e", "r", ".", "*", "b", "l", "i", "n", "d", "$">>) @@
    ("cover." :> <<"c", "o", "v", "e", "r", ".">>)

StartsWith(s, p) == Len(s) >= Len(p) /\ SubSeq(s, 1, Len(p)) = p

\* Python's `p in s` on strings
Contains(s, p) ==
    \E i \in 0..(Len(s) - Len(p)) : SubSeq(s, i + 1, i + Len(p)) = p

\* str.lower()
UpperCase == <<"A", "B", "C", "L", "Z">>
LowerCase == <<"a", "b", "c", "l", "z">>
LowerChar(c) ==
    IF \E i \in 1..Len(UpperCase) : UpperCase[i] = c
    THEN LowerCase[CHOOSE i \in 1..Len(UpperCase) : UpperCase[i] = c]
    ELSE c
Lower(s) == [i \in 1..Len(s) |-> LowerChar(s[i])]

\* re.match(pattern.replace(".", r"\.").replace("*", ".*"), s): "." is
\* escaped to a literal dot, "*" becomes ".*", the match is anchored at the
\* start of s only. No other character is escaped, so the rest of the
\* pattern keeps its meaning as a regular expression: "$" matches the empty
\* string at the end of s. (Of the regular-expression operators the model
\* has "$" only; letters, digits and "_" stand for themselves.)
RECURSIVE ReMatch(_, _)
ReMatch(p, s) ==
    IF p = <<>> THEN TRUE
    ELSE IF Head(p) = "*"
    THEN \E k \in 0..Len(s) : ReMatch(Tail(p), SubSeq(s, k + 1, Len(s)))
    ELSE IF Head(p) = "$"
    THEN s = <<>> /\ ReMatch(Tail(p), s)
    ELSE s # <<>> /\ Head(s) = Head(p) /\ ReMatch(Tail(p), Tail(s))

\* _matches_zigbee_pattern(entity_id)
matches_zigbee_pattern(entity_id) ==
    LET entity_lower == Lower(Chars[entity_id])
    IN  \E i \in 1..Len(zigbee_patterns) :
            LET pattern == Chars[zigbee_patterns[i]]
            IN  IF \E j \in 1..Len(pattern) : pattern[j] = "*"
                THEN ReMatch(pattern, entity_lower)
                ELSE Contains(entity_lower, Lower(pattern))

\* ---- what the Supervisor API answers to one request ----
\* kind: "unused"    the request was not made in this sample
\*       "transport" requests raised a RequestException (connection error,
\*                   timeout, HTTP error status)
\*       "malformed" the body has not the expected shape (a JSON list where an
\*                   object is expected, a string where a dict is expected):
\*                   the code raises AttributeError/TypeError on it
\*       "data"      a well-formed answer
InfoAnswers ==
    {[kind |-> k, update_available |-> FALSE] : k \in {"transport", "malformed", "data"}}
    \cup {[kind |-> "data", update_available |-> TRUE]}

InfoUnused == [kind |-> "unused", update_available |-> FALSE]

AddonKinds ==
    {[name |-> "a", update_available |-> TRUE],
     [name |-> "b", update_available |-> TRUE],
     [name |-> "b", update_available |-> FALSE]}

EntityKinds ==
    {[entity_id |-> "cover.lumi_blind_1", state |-> "unavailable",
      has_name |-> TRUE, friendly_name |-> "Living Room Blind"],
     [entity_id |-> "cover.lumi_blind_1", state |-> "unavailable",
      has_name |-> FALSE, friendly_name |-> ""],
     [entity_id |-> "cover.lumi_blind_1", state |-> "open",
      has_name |-> TRUE, friendly_name |-> "Living Room Blind"],
     [entity_id |-> "cover.acn002_blind", state |-> "unavailable",
      has_name |-> TRUE, friendly_name |-> "Bedroom Blind"],
     [entity_id |-> "button.lumi_switch", state |-> "unavailable",
      has_name |-> FALSE, friendly_name |-> ""],
     [entity_id |-> "cover.kitchen", state |-> "unavailable",
      has_name |-> FALSE, friendly_name |-> ""]}

SeqsUpTo(S, n) == UNION {[1..k -> S] : k \in 0..n}

AddonsAnswers ==
    {[kind |-> k, addons |-> <<>>] : k \in {"transport", "malformed"}}
    \cup {[kind |-> "data", addons |-> l] : l \in SeqsUpTo(AddonKinds, MaxAddons)}

AddonsUnused == [kind |-> "unused", addons |-> <<>>]

StatesAnswers ==
    {[kind |-> k, states |-> <<>>] : k \in {"transport", "malformed"}}
    \cup {[kind |-> "data", states |-> l] : l \in SeqsUpTo(EntityKinds, MaxEntities)}

StatesUnused == [kind |-> "unused", states |-> <<>>]

ApiUnused ==
    [core |-> InfoUnused, os |-> InfoUnused, supervisor |-> InfoUnused,
     addons |-> AddonsUnused, states |-> StatesUnused]

\* the result of a check: it raised, or it returned `list`
Returned(l) == [raised |-> FALSE, list |-> l]
Raised == [raised |-> TRUE, list |-> <<>>]

\* _api_get(endpoint): None without a token (no request is made) and on a
\* RequestException; a malformed body raises out of it
api_get(answer) ==
    IF ~token THEN [raised |-> FALSE, none |-> TRUE]
    ELSE IF answer.kind = "malformed" THEN [raised |-> TRUE, none |-> TRUE]
    ELSE [raised |-> FALSE, none |-> answer.kind # "data"]

\* _check_core_updates()
check_core_updates(a) ==
    LET data == api_get(a.core)
    IN  IF data.raised THEN Raised
        ELSE IF ~data.none /\ a.core.update_available
        THEN Returned(<<"Core: 1 -> 2">>)
        ELSE Returned(<<>>)

\* _check_os_updates()
check_os_updates(a) ==
    LET data == api_get(a.os)
    IN  IF data.raised THEN Raised
        ELSE IF ~data.none /\ a.os.update_available
        THEN Returned(<<"OS: 1 -> 2">>)
        ELSE Returned(<<>>)

\* _check_supervisor_updates()
check_supervisor_updates(a) ==
    LET data == api_get(a.supervisor)
    IN  IF data.raised THEN Raised
        ELSE IF ~data.none /\ a.supervisor.update_available
        THEN Returned(<<"Supervisor: 1 -> 2">>)
        ELSE Returned(<<>>)

AddonLabel(addon) == IF addon.name = "a" THEN "Add-on: a" ELSE "Add-on: b"

\* _check_addon_updates()
check_addon_updates(a) ==
    LET data == api_get(a.addons)
    IN  IF data.raised THEN Raised
        ELSE IF data.none THEN Returned(<<>>)
        ELSE Returned([i \in 1..Len(SelectSeq(a.addons.addons,
                                       LAMBDA x : x.update_available)) |->
                        AddonLabel(SelectSeq(a.addons.addons,
                                       LAMBDA x : x.update_available)[i])])

\* all_updates.extend(...): an exception in a later check leaves the method
Extend(acc, r) ==
    IF acc.raised \/ r.raised THEN Raised ELSE Returned(acc.list \o r.list)

\* check_for_updates()
check_for_updates(a) ==
    IF ~check_updates THEN Returned(<<>>)
    ELSE Extend(Extend(Extend(check_core_updates(a), check_os_updates(a)),
                       check_supervisor_updates(a)),
                check_addon_updates(a))

\* the entities check_zigbee_devices() reports, in order
Unavailable(states) ==
    LET hit(e) == /\ StartsWith(Chars[e.entity_id], Chars["cover."])
                  /\ matches_zigbee_pattern(e.entity_id)
                  /\ e.state = "unavailable"
        sel == SelectSeq(states, hit)
    IN  [i \in 1..Len(sel) |->
            IF sel[i].has_name THEN sel[i].friendly_name ELSE sel[i].entity_id]

\* check_zigbee_devices(): the request is made with or without a token
check_zigbee_devices(a) ==
    IF ~check_zigbee THEN Returned(<<>>)
    ELSE IF a.states.kind = "malformed" THEN Raised
    ELSE IF a.states.kind # "data" THEN Returned(<<>>)
    ELSE Returned(Unavailable(a.states.states))

\* SystemStatus() (ha_monitor.py:22-35)
SystemStatus ==
    [zigbee_issues |-> FALSE, updates_available |-> FALSE,
     unavailable_devices |-> <<>>, pending_updates |-> <<>>, error |-> "None"]

\* the try block of get_status() with both flags computed after both lists
\* are assigned: an exception of the second check leaves the first flag unset
get_status_try_flagsLast(a) ==
    LET u == check_for_updates(a)
        z == check_zigbee_devices(a)
        s1 == [SystemStatus EXCEPT !.pending_updates = u.list]
        s2 == [s1 EXCEPT !.unavailable_devices = z.list,
                         !.updates_available = Len(u.list) > 0,
                         !.zigbee_issues = Len(z.list) > 0]
    IN  IF u.raised THEN [raised |-> TRUE, status |-> SystemStatus]
        ELSE IF z.raised THEN [raised |-> TRUE, status |-> s1]
        ELSE [raised |-> FALSE, status |-> s2]

\* the try block of get_status(): the statements run until one raises
get_status_try(a) ==
    LET u == check_for_updates(a)
        z == check_zigbee_devices(a)
        s1 == [SystemStatus EXCEPT !.pending_updates = u.list,
                                   !.updates_available = Len(u.list) > 0]
        s2 == [s1 EXCEPT !.unavailable_devices = z.list,
                         !.zigbee_issues = Len(z.list) > 0]
    IN  IF u.raised THEN [raised |-> TRUE, status |-> SystemStatus]
        ELSE IF z.raised THEN [raised |-> TRUE, status |-> s1]
        ELSE [raised |-> FALSE, status |-> s2]

\* get_status() without its `except Exception`: the exception leaves it
get_status_uncaught(a) == get_status_try(a)

\* get_status(): `except Exception` records the error and returns the status
get_status(a) ==
    LET t == get_status_try(a)
    IN  IF t.raised
        THEN [raised |-> FALSE, status |-> [t.status EXCEPT !.error = "Exception"]]
        ELSE t

\* get_status_priority() with the two tests in the other order
get_status_priority_updatesFirst(st) ==
    IF st.updates_available THEN "updates"
    ELSE IF st.zigbee_issues THEN "error"
    ELSE "ok"

\* get_status_priority() escalating a sampling error to "error"
get_status_priority_errorEscalates(st) ==
    IF st.zigbee_issues \/ st.error # "None" THEN "error"
    ELSE IF st.updates_available THEN "updates"
    ELSE "ok"

\* get_status_priority(), on the status get_status() returned
get_status_priority(st) ==
    IF st.zigbee_issues THEN "error"
    ELSE IF st.updates_available THEN "updates"
    ELSE "ok"

\* The request the sample in progress makes next, from the answers it has so
\* far: check_for_updates() asks core, os, supervisor, addons in this order
\* (only with a token), then check_zigbee_devices() asks for the states; an
\* exception ends the try block of get_status(). "finish": no request is left.
NextRequest(a) ==
    LET upd == check_updates /\ token
        seen == <<a.core.kind, a.os.kind, a.supervisor.kind, a.addons.kind>>
        name == <<"core", "os", "supervisor", "addons">>
        first == IF \E i \in 1..4 : seen[i] \in {"unused", "malformed"}
                 THEN CHOOSE i \in 1..4 : /\ seen[i] \in {"unused", "malformed"}
                                          /\ \A j \in 1..(i - 1) :
                                                seen[j] \notin {"unused", "malformed"}
                 ELSE 0
    IN  IF upd /\ first # 0
        THEN IF seen[first] = "unused" THEN name[first] ELSE "finish"
        ELSE IF check_zigbee /\ a.states.kind = "unused" THEN "states"
        ELSE "finish"

---------------------------------------------------------------------------
\* SpecDevice: a caller that invokes the LEDController methods in any order

\* main() not running
NoRequest == [path |-> "", color |-> ""]

MainIdle ==
    /\ pc = "boot"
    /\ led_controller = FALSE
    /\ shutdown_requested = FALSE
    /\ request = NoRequest
    /\ response = 0
    /\ exitKind = "none"
    /\ signals = 0
    /\ clearCalls = 0
    /\ served = FALSE

\* the monitor before its first sample, with the default configuration
MonitorIdle ==
    /\ token = TRUE
    /\ check_zigbee = TRUE
    /\ check_updates = TRUE
    /\ zigbee_patterns = <<"lumi", "zha", "zigbee">>
    /\ api = ApiUnused
    /\ status = SystemStatus
    /\ sampleRaised = FALSE
    /\ priority = "none"
    /\ mpc = "idle"

InitDevice ==
    /\ HAS_WS281X \in BOOLEAN
    /\ strip = FALSE
    /\ initialized = FALSE
    /\ current_color = OFF
    /\ lastPercent \in PercentInputs
    /\ brightness = ScaleBrightness(lastPercent)
    /\ pixels = AllPixels(OFF)
    /\ shown = AllPixels(OFF)
    /\ strip_brightness = 0
    /\ lastOp = "none"
    /\ lastResult = "ok"
    /\ preInit = FALSE
    /\ cleanupRun = 0
    /\ lastReturn = "None"
    /\ lastStatus = ""
    /\ lastColor = OFF
    /\ MonitorIdle
    /\ MainIdle

\* the history of a call that returns None
Record(op, result) ==
    /\ lastOp' = op
    /\ lastResult' = result
    /\ preInit' = initialized
    /\ cleanupRun' = IF op = "cleanup" THEN Min(2, cleanupRun + 1) ELSE 0
    /\ lastReturn' = "None"
    /\ lastColor' = OFF
    /\ UNCHANGED <<lastPercent, lastStatus>>

\* the history of a set_color(color) call
RecordColor(color, result) ==
    /\ lastOp' = "set_color"
    /\ lastResult' = result
    /\ preInit' = initialized
    /\ cleanupRun' = 0
    /\ lastReturn' = "None"
    /\ lastColor' = color
    /\ UNCHANGED <<lastPercent, lastStatus>>

\* the history of an initialize() call, which returns True or False
RecordInitialize(fail) ==
    /\ lastOp' = "initialize"
    /\ lastResult' = "ok"
    /\ preInit' = initialized
    /\ cleanupRun' = 0
    /\ lastReturn' = IF initializeResult(fail) THEN "True" ELSE "False"
    /\ lastColor' = OFF
    /\ UNCHANGED <<lastPercent, lastStatus>>

\* the history of a set_status(status) call
RecordStatus(name) ==
    /\ lastOp' = "set_status"
    /\ lastResult' = "ok"
    /\ preInit' = initialized
    /\ cleanupRun' = 0
    /\ lastReturn' = "None"
    /\ lastStatus' = name
    /\ lastColor' = color_map_get(name)
    /\ UNCHANGED lastPercent

\* the history of a set_brightness(percent) call
RecordBrightness(percent, result) ==
    /\ lastOp' = "set_brightness"
    /\ lastResult' = result
    /\ preInit' = initialized
    /\ cleanupRun' = 0
    /\ lastReturn' = "None"
    /\ lastPercent' = percent
    /\ lastColor' = OFF
    /\ UNCHANGED lastStatus

CallInitialize ==
    \E fail \in {"none", "create", "begin"} :
        /\ initialize(fail)
        /\ RecordInitialize(fail)
        /\ UNCHANGED <<HAS_WS281X, current_color, brightness>>

CallSetColor ==
    \E color \in ColorInputs, fail \in 0..(LedCount + 1) :
        /\ set_color(color, fail)
        /\ RecordColor(color, IF set_colorRaises(fail) THEN "raised" ELSE "ok")
        /\ UNCHANGED <<HAS_WS281X, strip, initialized, brightness, strip_brightness>>

CallSetBrightness ==
    \E percent \in PercentInputs, fail \in {"none", "setBrightness", "show"} :
        /\ set_brightness(percent, fail)
        /\ RecordBrightness(percent,
                            IF set_brightnessRaises(fail) THEN "raised" ELSE "ok")
        /\ UNCHANGED <<HAS_WS281X, strip, initialized, current_color, pixels>>

CallCleanup ==
    \E fail \in 0..(LedCount + 1) :
        /\ cleanup(fail)
        /\ Record("cleanup", IF cleanupRaises(fail) THEN "raised" ELSE "ok")
        /\ UNCHANGED <<HAS_WS281X, strip, initialized, brightness, strip_brightness>>

NextDevice ==
    \/ CallInitialize /\ UNCHANGED <<monVars, mainVars>>
    \/ CallSetColor /\ UNCHANGED <<monVars, mainVars>>
    \/ CallSetBrightness /\ UNCHANGED <<monVars, mainVars>>
    \/ CallCleanup /\ UNCHANGED <<monVars, mainVars>>

SpecDevice == InitDevice /\ [][NextDevice]_vars

---------------------------------------------------------------------------
\* SpecStatus: the device driven by status names, as the caller of
\* set_status() drives it with the label of get_status_priority().

\* the flags of a sample that get_status_priority() reads
StatusFlags ==
    {[SystemStatus EXCEPT !.zigbee_issues = z, !.updates_available = u] :
        z \in BOOLEAN, u \in BOOLEAN}

\* every label get_status_priority() can return
PriorityLabels == {get_status_priority(st) : st \in StatusFlags}

\* the status names of the model: the labels of the reduction, the name of
\* the boot status, names in another case, and a name color_map lacks
StatusInputs == PriorityLabels \cup {"starting", "Error", "UPDATES", "unknown"}

CallSetStatus ==
    \E name \in StatusInputs, fail \in 0..(LedCount + 1) :
        /\ set_status(name, fail)
        /\ RecordStatus(name)
        /\ UNCHANGED <<HAS_WS281X, strip, initialized, brightness, strip_brightness>>

NextStatus ==
    \/ CallInitialize /\ UNCHANGED <<monVars, mainVars>>
    \/ CallSetStatus /\ UNCHANGED <<monVars, mainVars>>

SpecStatus == InitDevice /\ [][NextStatus]_vars

---------------------------------------------------------------------------
\* SpecScale: the brightness scaling on its own, over a wide range of
\* percentages, on a device that has no strip

\* every percentage of SpecScale
PercentRange == (0 - MaxPercent)..MaxPercent

InitScale ==
    /\ HAS_WS281X \in BOOLEAN
    /\ strip = FALSE
    /\ initialized = FALSE
    /\ current_color = OFF
    /\ lastPercent \in PercentRange
    /\ brightness = ScaleBrightness(lastPercent)
    /\ pixels = AllPixels(OFF)
    /\ shown = AllPixels(OFF)
    /\ strip_brightness = 0
    /\ lastOp = "none"
    /\ lastResult = "ok"
    /\ preInit = FALSE
    /\ cleanupRun = 0
    /\ lastReturn = "None"
    /\ lastStatus = ""
    /\ lastColor = OFF
    /\ MonitorIdle
    /\ MainIdle

CallScale ==
    \E percent \in PercentRange :
        /\ set_brightness(percent, "none")
        /\ RecordBrightness(percent, "ok")
        /\ UNCHANGED <<HAS_WS281X, strip, initialized, current_color, pixels>>

NextScale == CallScale /\ UNCHANGED <<monVars, mainVars>>

SpecScale == InitScale /\ [][NextScale]_vars

---------------------------------------------------------------------------
\* SpecMonitor: a caller that samples through get_status_priority() repeatedly

\* a device that nobody touches
DeviceIdle ==
    /\ HAS_WS281X = FALSE
    /\ strip = FALSE
    /\ initialized = FALSE
    /\ current_color = OFF
    /\ brightness = ScaleBrightness(50)
    /\ pixels = AllPixels(OFF)
    /\ shown = AllPixels(OFF)
    /\ strip_brightness = 0
    /\ lastOp = "none"
    /\ lastResult = "ok"
    /\ preInit = FALSE
    /\ cleanupRun = 0
    /\ lastReturn = "None"
    /\ lastPercent = 50
    /\ lastStatus = ""
    /\ lastColor = OFF

PatternSets ==
    {<<"lumi", "zha", "zigbee">>, <<"cover.*acn002">>, <<"cover.*blind$">>}

InitMonitor ==
    /\ DeviceIdle
    /\ MainIdle
    /\ token \in BOOLEAN
    /\ check_zigbee \in BOOLEAN
    /\ check_updates \in BOOLEAN
    /\ zigbee_patterns \in PatternSets
    /\ api = ApiUnused
    /\ status = SystemStatus
    /\ sampleRaised = FALSE
    /\ priority = "none"
    /\ mpc = "idle"

\* get_status_priority() is called: status = SystemStatus()
BeginSample ==
    /\ mpc \in {"idle", "done"}
    /\ mpc' = "sampling"
    /\ api' = ApiUnused
    /\ status' = SystemStatus
    /\ sampleRaised' = FALSE
    /\ priority' = "none"
    /\ UNCHANGED <<token, check_zigbee, check_updates, zigbee_patterns>>
    /\ UNCHANGED <<devVars, histVars, mainVars>>

\* the Supervisor API answers the request the sample makes next
Answer ==
    /\ mpc = "sampling"
    /\ \/ /\ NextRequest(api) = "core"
          /\ \E r \in InfoAnswers : api' = [api EXCEPT !.core = r]
       \/ /\ NextRequest(api) = "os"
          /\ \E r \in InfoAnswers : api' = [api EXCEPT !.os = r]
       \/ /\ NextRequest(api) = "supervisor"
          /\ \E r \in InfoAnswers : api' = [api EXCEPT !.supervisor = r]
       \/ /\ NextRequest(api) = "addons"
          /\ \E r \in AddonsAnswers : api' = [api EXCEPT !.addons = r]
       \/ /\ NextRequest(api) = "states"
          /\ \E r \in StatesAnswers : api' = [api EXCEPT !.states = r]
    /\ UNCHANGED <<mpc, status, sampleRaised, priority>>
    /\ UNCHANGED <<token, check_zigbee, check_updates, zigbee_patterns>>
    /\ UNCHANGED <<devVars, histVars, mainVars>>

\* get_status() returns (or raises) and get_status_priority() reduces it
FinishSample ==
    /\ mpc = "sampling"
    /\ NextRequest(api) = "finish"
    /\ mpc' = "done"
    /\ LET r == get_status(api)
       IN  /\ sampleRaised' = r.raised
           /\ status' = r.status
           /\ priority' = IF r.raised THEN "raised"
                          ELSE get_status_priority(r.status)
    /\ UNCHANGED <<api, token, check_zigbee, check_updates, zigbee_patterns>>
    /\ UNCHANGED <<devVars, histVars, mainVars>>

NextMonitor ==
    \/ BeginSample
    \/ Answer
    \/ FinishSample

SpecMonitor == InitMonitor /\ [][NextMonitor]_vars

---------------------------------------------------------------------------
\* Spec: main() of main.py, the signal handler and the HTTP requests

\* main.py names the palette entries OK, WARNING, ERROR and STARTING, while
\* StatusColor of led_controller.py names them GREEN, AMBER, RED and BLUE.
\* Each alias stands for the entry that main.py's COLOR_MAP key and comments
\* name ("green", "amber"/"yellow", "red", "Set startup indicator (blue)").
OK == GREEN
WARNING == AMBER
ERROR == RED
STARTING == BLUE

\* LEDServiceHandler.COLOR_MAP
\* the attributes class StatusColor defines
StatusColorNames == {"GREEN", "AMBER", "RED", "BLUE", "OFF", "WHITE"}

\* the StatusColor attribute each COLOR_MAP entry reads, as main.py writes it
COLOR_MAP_Attr ==
    ("green" :> "OK") @@ ("amber" :> "WARNING") @@ ("yellow" :> "WARNING") @@
    ("red" :> "ERROR") @@ ("blue" :> "STARTING") @@ ("white" :> "WHITE") @@
    ("off" :> "OFF")

\* COLOR_MAP with one more key, a name the service does not offer
COLOR_MAP_withPurple ==
    ("green" :> GREEN) @@ ("amber" :> AMBER) @@ ("yellow" :> AMBER) @@
    ("red" :> RED) @@ ("blue" :> BLUE) @@ ("white" :> WHITE) @@ ("off" :> OFF) @@
    ("purple" :> <<128, 0, 128>>)

COLOR_MAP ==
    ("green" :> OK) @@ ("amber" :> WARNING) @@ ("yellow" :> WARNING) @@
    ("red" :> ERROR) @@ ("blue" :> STARTING) @@ ("white" :> WHITE) @@
    ("off" :> OFF)

\* the color parameter of the requests of the model ("": no parameter)
ColorParams == {"green", "GREEN", "yellow", "off", "", "purple"}

\* str.lower() on the color parameter
ColorNameLower(name) == IF name = "GREEN" THEN "green" ELSE name

Requests ==
    {[path |-> "/health", color |-> ""], [path |-> "/other", color |-> ""]}
    \cup {[path |-> "/set_color", color |-> c] : c \in ColorParams}

Init ==
    /\ HAS_WS281X \in BOOLEAN
    /\ strip = FALSE
    /\ initialized = FALSE
    /\ current_color = OFF
    /\ brightness = ScaleBrightness(50)
    /\ pixels = AllPixels(OFF)
    /\ shown = AllPixels(OFF)
    /\ strip_brightness = 0
    /\ lastOp = "none"
    /\ lastResult = "ok"
    /\ preInit = FALSE
    /\ cleanupRun = 0
    /\ lastReturn = "None"
    /\ lastPercent = 50
    /\ lastStatus = ""
    /\ lastColor = OFF
    /\ MonitorIdle
    /\ MainIdle

\* led_controller = LEDController(...): LEDController.__init__
MainCreate ==
    /\ pc = "boot"
    /\ \E percent \in PercentInputs :
          /\ brightness' = ScaleBrightness(percent)
          /\ lastPercent' = percent
    /\ led_controller' = TRUE
    /\ pc' = "initialize"
    /\ UNCHANGED <<HAS_WS281X, strip, initialized, current_color, pixels, shown,
                   strip_brightness, monVars>>
    /\ UNCHANGED <<lastOp, lastResult, preInit, cleanupRun, lastReturn, lastStatus,
                   lastColor>>
    /\ UNCHANGED <<shutdown_requested, request, response, exitKind, signals,
                   clearCalls, served>>

\* led_controller.initialize(); a failure is logged and main() goes on
MainInitialize ==
    /\ pc = "initialize"
    /\ \E fail \in {"none", "create", "begin"} :
          initialize(fail) /\ RecordInitialize(fail)
    /\ pc' = "set_starting"
    /\ UNCHANGED <<HAS_WS281X, current_color, brightness, monVars>>
    /\ UNCHANGED <<led_controller, shutdown_requested, request, response,
                   exitKind, signals, clearCalls, served>>

\* led_controller.set_color(StatusColor.STARTING)
MainSetStarting ==
    /\ pc = "set_starting"
    /\ \E fail \in 0..(LedCount + 1) : set_color(STARTING, fail)
    /\ RecordColor(STARTING, "ok")
    /\ pc' = "bind"
    /\ UNCHANGED <<HAS_WS281X, strip, initialized, brightness, strip_brightness,
                   monVars>>
    /\ UNCHANGED <<led_controller, shutdown_requested, request, response,
                   exitKind, signals, clearCalls, served>>

\* server = HTTPServer(('0.0.0.0', port), ...): binding the port may fail,
\* and the OSError leaves main()
MainBind ==
    /\ pc = "bind"
    /\ \E bound \in BOOLEAN :
        /\ pc' = IF bound THEN "settle" ELSE "Stopped"
        /\ exitKind' = IF bound THEN exitKind ELSE "OSError"
    /\ UNCHANGED <<devVars, histVars, monVars>>
    /\ UNCHANGED <<led_controller, shutdown_requested, request, response,
                   signals, clearCalls, served>>

\* time.sleep(2); led_controller.set_color(StatusColor.OK); the loop is entered
MainSettle ==
    /\ pc = "settle"
    /\ \E fail \in 0..(LedCount + 1) : set_color(OK, fail)
    /\ RecordColor(OK, "ok")
    /\ pc' = "serve"
    /\ served' = TRUE
    /\ UNCHANGED <<HAS_WS281X, strip, initialized, brightness, strip_brightness,
                   monVars>>
    /\ UNCHANGED <<led_controller, shutdown_requested, request, response,
                   exitKind, signals, clearCalls>>

\* while not shutdown_requested: the flag is set, the loop ends
MainLoopExit ==
    /\ pc = "serve"
    /\ shutdown_requested
    /\ pc' = "finally"
    /\ UNCHANGED <<devVars, histVars, monVars>>
    /\ UNCHANGED <<led_controller, shutdown_requested, request, response,
                   exitKind, signals, clearCalls, served>>

\* server.handle_request() accepts a request and calls do_GET
MainAccept ==
    /\ pc = "serve"
    /\ ~shutdown_requested
    /\ \E r \in Requests : request' = r
    /\ pc' = "handling"
    /\ UNCHANGED <<devVars, histVars, monVars>>
    /\ UNCHANGED <<led_controller, shutdown_requested, response, exitKind,
                   signals, clearCalls, served>>

\* server.handle_request() raises outside the request handler (an error of
\* the listening socket or of its selector): `except Exception` logs it,
\* and the try statement is left
MainUnexpected ==
    /\ pc = "serve"
    /\ ~shutdown_requested
    /\ pc' = "finally"
    /\ UNCHANGED <<devVars, histVars, monVars>>
    /\ UNCHANGED <<led_controller, shutdown_requested, request, response,
                   exitKind, signals, clearCalls, served>>

\* LEDServiceHandler.do_GET up to its response
DoGET ==
    /\ pc = "handling"
    /\ LET color_name == ColorNameLower(request.color)
       IN  IF request.path = "/health"
           THEN /\ response' = 200
                /\ pc' = "serve"
                /\ request' = NoRequest
                /\ UNCHANGED <<devVars, histVars>>
           ELSE IF request.path # "/set_color"
           THEN /\ response' = 404
                /\ pc' = "serve"
                /\ request' = NoRequest
                /\ UNCHANGED <<devVars, histVars>>
           ELSE IF color_name = "" \/ color_name \notin DOMAIN COLOR_MAP
           THEN /\ response' = 400
                /\ pc' = "serve"
                /\ request' = NoRequest
                /\ UNCHANGED <<devVars, histVars>>
           ELSE /\ IF led_controller
                   THEN /\ \E fail \in 0..(LedCount + 1) :
                              set_color(COLOR_MAP[color_name], fail)
                        /\ RecordColor(COLOR_MAP[color_name], "ok")
                   ELSE UNCHANGED <<current_color, pixels, shown, histVars>>
                /\ pc' = "responding"
                /\ UNCHANGED <<HAS_WS281X, strip, initialized, brightness,
                               strip_brightness, request, response>>
    /\ UNCHANGED <<monVars, led_controller, shutdown_requested, exitKind,
                   signals, clearCalls, served>>

\* send_response(200) ... wfile.write(...): the success response of /set_color
Respond ==
    /\ pc = "responding"
    /\ response' = 200
    /\ request' = NoRequest
    /\ pc' = "serve"
    /\ UNCHANGED <<devVars, histVars, monVars>>
    /\ UNCHANGED <<led_controller, shutdown_requested, exitKind, signals,
                   clearCalls, served>>

\* finally: server.server_close(); if led_controller: led_controller.clear().
\* LEDController defines no clear(): the call raises AttributeError, which
\* leaves main() before "Shutdown complete".
MainFinally ==
    /\ pc = "finally"
    /\ pc' = "Stopped"
    /\ clearCalls' = IF led_controller THEN clearCalls + 1 ELSE clearCalls
    /\ exitKind' = IF led_controller THEN "AttributeError" ELSE "normal"
    /\ UNCHANGED <<devVars, histVars, monVars>>
    /\ UNCHANGED <<led_controller, shutdown_requested, request, response,
                   signals, served>>

\* signal_handler(signum, frame), run in the main thread where main() stands:
\* it sets shutdown_requested; with a controller it calls
\* led_controller.clear(), which raises AttributeError (LEDController has no
\* clear()), so sys.exit(0) is reached only without a controller. The
\* exception then travels from the place main() was interrupted at.
SignalRaises ==
    /\ pc # "Stopped"
    /\ signals < MaxSignals
    /\ signals' = signals + 1
    /\ shutdown_requested' = TRUE
    /\ clearCalls' = IF led_controller THEN clearCalls + 1 ELSE clearCalls

\* ... outside every try statement, or inside the finally block: the
\* exception leaves main() and the process ends
SignalUncaught ==
    /\ SignalRaises
    /\ pc \in {"boot", "initialize", "set_starting", "bind", "settle", "finally"}
    /\ pc' = "Stopped"
    /\ exitKind' = IF led_controller THEN "AttributeError" ELSE "SystemExit"
    /\ UNCHANGED <<devVars, histVars, monVars>>
    /\ UNCHANGED <<led_controller, request, response, served>>

\* ... while handle_request() waits for a request: `except Exception` of
\* main() catches the AttributeError and the finally block runs
SignalWhileWaiting ==
    /\ SignalRaises
    /\ pc = "serve"
    /\ pc' = "finally"
    /\ UNCHANGED <<devVars, histVars, monVars>>
    /\ UNCHANGED <<led_controller, request, response, exitKind, served>>

\* ... while do_GET runs: socketserver catches the exception of a request
\* handler (handle_error), drops the request and handle_request() returns
SignalWhileHandling ==
    /\ SignalRaises
    /\ pc \in {"handling", "responding"}
    /\ pc' = "serve"
    /\ request' = NoRequest
    /\ UNCHANGED <<devVars, histVars, monVars>>
    /\ UNCHANGED <<led_controller, response, exitKind, served>>

\* ... inside the try block of initialize() or of set_color(), which exist
\* on the hardware path only: the method's own `except Exception` catches
\* the AttributeError as if the backend call had failed, and main() goes on
SignalInDevice ==
    /\ SignalRaises
    /\ HAS_WS281X
    /\ \/ /\ pc = "initialize"
          /\ \E fail \in {"create", "begin"} :
                initialize(fail) /\ RecordInitialize(fail)
          /\ pc' = "set_starting"
          /\ UNCHANGED <<current_color, request, served>>
       \/ /\ pc = "set_starting"
          /\ initialized /\ strip
          /\ \E fail \in 1..(LedCount + 1) : set_color(STARTING, fail)
          /\ RecordColor(STARTING, "ok")
          /\ pc' = "bind"
          /\ UNCHANGED <<strip, initialized, strip_brightness, request, served>>
       \/ /\ pc = "settle"
          /\ initialized /\ strip
          /\ \E fail \in 1..(LedCount + 1) : set_color(OK, fail)
          /\ RecordColor(OK, "ok")
          /\ pc' = "serve"
          /\ served' = TRUE
          /\ UNCHANGED <<strip, initialized, strip_brightness, request>>
       \/ /\ pc = "handling"
          /\ initialized /\ strip
          /\ request.path = "/set_color"
          /\ ColorNameLower(request.color) \in DOMAIN COLOR_MAP
          /\ \E fail \in 1..(LedCount + 1) :
                set_color(COLOR_MAP[ColorNameLower(request.color)], fail)
          /\ RecordColor(COLOR_MAP[ColorNameLower(request.color)], "ok")
          /\ pc' = "responding"
          /\ UNCHANGED <<strip, initialized, strip_brightness, request, served>>
    /\ UNCHANGED <<HAS_WS281X, brightness, monVars>>
    /\ UNCHANGED <<led_controller, response, exitKind>>

Next ==
    \/ MainCreate
    \/ MainInitialize
    \/ MainSetStarting
    \/ MainBind
    \/ MainSettle
    \/ MainLoopExit
    \/ MainAccept
    \/ MainUnexpected
    \/ DoGET
    \/ Respond
    \/ MainFinally
    \/ SignalUncaught
    \/ SignalWhileWaiting
    \/ SignalWhileHandling
    \/ SignalInDevice

Spec == Init /\ [][Next]_vars

---------------------------------------------------------------------------
\* Properties

InList(x, l) == \E i \in 1..Len(l) : l[i] = x

\* a request that was made and did not yield a well-formed answer
Failed(kind) == kind \in {"transport", "malformed"}

AddonLabels == {"Add-on: a", "Add-on: b"}

\* C1: for every snapshot a sample returns, the reduction is "error" whenever
\* unavailable_devices is nonempty (whatever pending_updates holds), "updates"
\* when unavailable_devices is empty and pending_updates is not, "ok"
\* otherwise; it is always one of the three labels.
C1_ReductionPrecedence ==
    mpc = "done" =>
        /\ priority \in {"error", "updates", "ok"}
        /\ status.unavailable_devices # <<>> => priority = "error"
        /\ (status.unavailable_devices = <<>> /\ status.pending_updates # <<>>)
              => priority = "updates"
        /\ (status.unavailable_devices = <<>> /\ status.pending_updates = <<>>)
              => priority = "ok"

\* C1 witness: a snapshot with an unavailable device and a pending update,
\* reduced to "error"
C1_Witness ==
    /\ mpc = "done"
    /\ status.unavailable_devices # <<>>
    /\ status.pending_updates # <<>>
    /\ priority = "error"

\* C2: a snapshot whose error is set and whose two lists are empty reduces to
\* "ok": a sampling error alone never escalates to "error".
C2_SampleErrorDegradesToOk ==
    (/\ mpc = "done"
     /\ status.error # "None"
     /\ status.unavailable_devices = <<>>
     /\ status.pending_updates = <<>>) => priority = "ok"

\* C2 witness: a sample whose update check raised, reduced to "ok"
C2_Witness ==
    /\ mpc = "done"
    /\ status.error # "None"
    /\ status.unavailable_devices = <<>>
    /\ status.pending_updates = <<>>
    /\ priority = "ok"

\* what every sample leaves of a request that failed: nothing in the lists
FailedCheckLeftEmpty ==
    /\ Failed(api.core.kind) => ~InList("Core: 1 -> 2", status.pending_updates)
    /\ Failed(api.os.kind) => ~InList("OS: 1 -> 2", status.pending_updates)
    /\ Failed(api.supervisor.kind)
          => ~InList("Supervisor: 1 -> 2", status.pending_updates)
    /\ Failed(api.addons.kind)
          => \A l \in AddonLabels : ~InList(l, status.pending_updates)
    /\ Failed(api.states.kind) => status.unavailable_devices = <<>>
    /\ ~token => status.pending_updates = <<>>

AnyFailed ==
    \E k \in {api.core.kind, api.os.kind, api.supervisor.kind, api.addons.kind,
              api.states.kind} : Failed(k)

AnyMalformed ==
    "malformed" \in {api.core.kind, api.os.kind, api.supervisor.kind,
                     api.addons.kind, api.states.kind}

C4_FailuresIsolated ==
    mpc = "done" =>
        /\ (check_updates /\ token) =>
              /\ \A k \in {api.core.kind, api.os.kind, api.supervisor.kind,
                           api.addons.kind} : k # "unused"
              /\ (api.core.kind = "data" /\ api.core.update_available)
                    => InList("Core: 1 -> 2", status.pending_updates)
              /\ (api.os.kind = "data" /\ api.os.update_available)
                    => InList("OS: 1 -> 2", status.pending_updates)
              /\ (api.supervisor.kind = "data" /\ api.supervisor.update_available)
                    => InList("Supervisor: 1 -> 2", status.pending_updates)
        /\ check_zigbee =>
              /\ api.states.kind # "unused"
              /\ api.states.kind = "data"
                    => status.unavailable_devices = Unavailable(api.states.states)

\* C5: once a termination signal has arrived after the controller was
\* created, the process ends with the device's colour Off.
C5_SignalEndsWithOff ==
    (pc = "Stopped" /\ led_controller /\ signals > 0) => current_color = OFF

\* C6: a run ended by termination signals has made the turn-off call of the
\* shutdown path exactly once.
C6_ShutdownOnce ==
    (pc = "Stopped" /\ led_controller /\ signals > 0) => clearCalls = 1

\* C7: the serve loop is left, and the process stopped after it, only
\* because a termination signal arrived.
C7_OnlySignalStops ==
    (served /\ pc \in {"finally", "Stopped"}) => signals > 0

\* C8: after cleanup() on an initialized device the current colour is Off and
\* the device is marked uninitialized.
C8_CleanupUninitializes ==
    (lastOp = "cleanup" /\ preInit) => (current_color = OFF /\ ~initialized)

\* C9: cleanup() never raises, in any device state, and a second cleanup() in
\* a row leaves colour, brightness and the initialized flag as the first did.
C9_CleanupIdempotent ==
    [][/\ lastOp' = "cleanup" => lastResult' = "ok"
       /\ cleanupRun' = 2 =>
             <<current_color', brightness', initialized'>>
                = <<current_color, brightness, initialized>>]_vars

\* C9 witness: two cleanup() calls in a row on an initialized hardware device
C9_Witness ==
    /\ cleanupRun = 2
    /\ lastResult = "ok"
    /\ initialized
    /\ strip
    /\ current_color = OFF

\* C10: set_color() and set_brightness() return normally whatever backend
\* call fails.
C10_BackendErrorsContained ==
    lastOp \in {"set_color", "set_brightness"} => lastResult = "ok"

\* C11: initialize() returns True and leaves the device initialized whenever
\* the hardware backend is unavailable: the library is missing, or creating
\* or starting the strip fails.
C11_InitializeFallsBack ==
    lastOp = "initialize" => (lastReturn = "True" /\ initialized)

\* C12: once startup has issued its first colour call, the device's colour
\* is Blue, whether initialize() succeeded or failed.
C12_StartupShowsBlue ==
    pc = "bind" => current_color = BLUE

\* C13: set_color on a device that is not initialized is a no-op for every
\* colour argument: it returns without an exception and leaves the colour,
\* the brightness, the initialized flag and the backend as they were.
C13_UninitializedSetColorIsNoOp ==
    [][(lastOp' = "set_color" /\ ~initialized)
          => (lastResult' = "ok" /\ UNCHANGED devVars)]_vars

\* set_color was called on a device whose strip exists but whose begin()
\* failed, so it is not initialized
C13_Witness ==
    /\ lastOp = "set_color"
    /\ lastResult = "ok"
    /\ ~preInit
    /\ ~initialized
    /\ strip
    /\ current_color = OFF

\* the colour names the control surface offers
ColorNames == {"green", "amber", "yellow", "red", "blue", "white", "off"}

C15_ValidColorApplied ==
    pc = "responding" =>
        LET name == ColorNameLower(request.color)
        IN  /\ lastOp = "set_color"
            /\ COLOR_MAP_Attr[name] \in StatusColorNames
            /\ initialized => current_color = COLOR_MAP[name]

\* C16: without the API credential a sample never raises and leaves both
\* the pending updates and the unavailable devices empty, whatever the API
\* would answer.
C16_NoTokenNoData ==
    (mpc = "done" /\ ~token)
        => (/\ ~sampleRaised
            /\ status.pending_updates = <<>>
            /\ status.unavailable_devices = <<>>)

\* the colour the palette gives each status of the pipeline
PaletteOf ==
    ("starting" :> BLUE) @@ ("ok" :> GREEN) @@ ("updates" :> AMBER) @@
    ("error" :> RED)

\* C17: set_status maps starting to Blue, ok to Green, updates to Amber and
\* error to Red; every label get_status_priority() can return has an entry
\* in color_map, so none of them falls through to the default Off.
C17_StatusColorTotal ==
    /\ \A label \in PriorityLabels \cup {"starting"} :
          /\ label \in DOMAIN PaletteOf
          /\ color_map_get(label) = PaletteOf[label]
    /\ (/\ lastOp = "set_status"
        /\ preInit
        /\ lastStatus \in PriorityLabels \cup {"starting"})
          => current_color = PaletteOf[lastStatus]

\* set_status("updates") has turned an initialized device with a strip Amber
C17_Witness ==
    /\ lastOp = "set_status"
    /\ preInit
    /\ lastStatus = "updates"
    /\ current_color = AMBER
    /\ shown = AllPixels(AMBER)

\* C18: the stored brightness is within 0..255 in every reachable state,
\* for every percentage given to the constructor or to set_brightness,
\* negative ones and ones above 100 included.
C18_BrightnessInRange ==
    /\ brightness \in 0..255
    /\ strip_brightness \in 0..255

\* set_brightness was given a percentage above 100 and stored 255
C18_Witness ==
    /\ lastOp = "set_brightness"
    /\ lastPercent > 100
    /\ brightness = 255

\* C19: every channel of the current colour is within 0..255 after any
\* sequence of device calls, whatever triples set_color was given.
C19_ChannelsInRange ==
    \A i \in 1..3 : current_color[i] \in 0..255

\* whether v is c * 2.55 rounded to the nearest integer (either neighbour
\* of an exact half)
NearestTimes2_55(v, c) == Abs(100 * v - 255 * c) <= 50

\* C20: for every percentage the stored brightness is the percentage clamped
\* to 0..100, multiplied by 2.55 and rounded to the nearest integer, within
\* 0..255.
C20_BrightnessRounded ==
    lastOp = "set_brightness" =>
        /\ brightness \in 0..255
        /\ NearestTimes2_55(brightness, Min(100, Max(0, lastPercent)))

\* a wildcard pattern in which "*" stands for any characters and every other
\* character for itself, matched from the start of s as the code matches
RECURSIVE WildcardMatch(_, _)
WildcardMatch(p, s) ==
    IF p = <<>> THEN TRUE
    ELSE IF Head(p) = "*"
    THEN \E k \in 0..Len(s) : WildcardMatch(Tail(p), SubSeq(s, k + 1, Len(s)))
    ELSE s # <<>> /\ Head(s) = Head(p) /\ WildcardMatch(Tail(p), Tail(s))

\* an identifier matches the pattern set: a plain pattern as a substring
\* without regard to case, a wildcard pattern by WildcardMatch
MatchesPatternSet(entity_id) ==
    LET entity_lower == Lower(Chars[entity_id])
    IN  \E i \in 1..Len(zigbee_patterns) :
            LET pattern == Chars[zigbee_patterns[i]]
            IN  IF \E j \in 1..Len(pattern) : pattern[j] = "*"
                THEN WildcardMatch(pattern, entity_lower)
                ELSE Contains(entity_lower, Lower(pattern))

\* the entities to report: the unavailable covers that match the pattern
\* set, each under its display name or else its identifier
ToReport(states) ==
    LET hit(e) == /\ StartsWith(Chars[e.entity_id], Chars["cover."])
                  /\ MatchesPatternSet(e.entity_id)
                  /\ e.state = "unavailable"
        sel == SelectSeq(states, hit)
    IN  [i \in 1..Len(sel) |->
            IF sel[i].has_name THEN sel[i].friendly_name ELSE sel[i].entity_id]

\* C21: the device-availability check reports exactly the entities that are
\* covers, match a pattern of the set (a plain pattern as a case-insensitive
\* substring; in a wildcard pattern "*" is any characters and every other
\* character is literal) and are unavailable, each under its display name
\* or, without one, its identifier; button.lumi_switch is never reported.
C21_ReportsMatchingCovers ==
    (mpc = "done" /\ api.states.kind = "data")
        => /\ status.unavailable_devices = ToReport(api.states.states)
           /\ ~InList("button.lumi_switch", status.unavailable_devices)

\* the reduction computed from the two lists instead of the two flags
PriorityOfLists(st) ==
    IF st.unavailable_devices # <<>> THEN "error"
    ELSE IF st.pending_updates # <<>> THEN "updates"
    ELSE "ok"

\* C22: in every snapshot get_status returns, also after a check failed
\* part-way, zigbee_issues is true exactly when unavailable_devices is not
\* empty and updates_available exactly when pending_updates is not empty,
\* so the reduction on the flags equals the reduction on the lists.
C22_FlagsAgreeWithLists ==
    (mpc = "done" /\ ~sampleRaised)
        => /\ status.zigbee_issues <=> (status.unavailable_devices # <<>>)
           /\ status.updates_available <=> (status.pending_updates # <<>>)
           /\ priority = PriorityOfLists(status)

\* the update check found an update and the device check raised after it:
\* the snapshot carries the error, the list and its flag
C22_Witness ==
    /\ mpc = "done"
    /\ ~sampleRaised
    /\ status.error # "None"
    /\ status.pending_updates # <<>>
    /\ status.updates_available
    /\ priority = "updates"

\* C23: on an initialized device the recorded colour is the argument c once
\* set_color(c) has returned, whether or not the backend write succeeded;
\* the colour is recorded before the write, so after a failed write it can
\* differ from what the strip shows.
C23_RecordedBeforeWrite ==
    (lastOp = "set_color" /\ preInit)
        => (lastResult = "ok" /\ current_color = lastColor)

\* set_color(GREEN) on an initialized strip whose write failed: Green is
\* recorded and the strip shows something else
C23_Witness ==
    /\ lastOp = "set_color"
    /\ preInit
    /\ HAS_WS281X
    /\ strip
    /\ lastColor = GREEN
    /\ current_color = GREEN
    /\ shown # AllPixels(GREEN)

===========================================================================
